---- MODULE Spec2Model ----
(***************************************************************************)
(* A model of the datastore library: hierarchical Keys (core/key.py), the  *)
(* Query / Filter / Order / Cursor pipeline (query.py), the filesystem     *)
(* adapter (filesystem/filesystem.py), the serializers and their shim      *)
(* (serialize.py) and the query of the memcached adapter                   *)
(* (impl/memcached.py).                                                    *)
(*                                                                         *)
(* Strings are sequences of tokens.  A token is one character ("/", ":",   *)
(* "a", "b", ".") or a fixed group of characters that no operation of the  *)
(* library looks inside (".obj", "..").  The library splits, joins and     *)
(* replaces on "/" and ":" only, so token sequences behave as the strings  *)
(* they spell.                                                             *)
(*                                                                         *)
(* The code uses the builtin cmp and dict.iteritems: the model follows the *)
(* Python 2 semantics of the interpreter that can run it.                  *)
(***************************************************************************)
EXTENDS Integers, Sequences, FiniteSets, TLC

VARIABLES
    kstring,    \* Key._kstring of the Key under test
    klast,      \* the last Key operation: [op, arg, before, raised]
    kprior,     \* the Key operation before the last one
    query,      \* Cursor.query: [filters, orders, offset, limited, limit]
    source,     \* the iterable the Cursor was constructed over
    pipe,       \* Cursor._iterable and Cursor.skipped:
                \*   [srcpos, stages, skipped]
    built,      \* how many of the four apply_* passes have been applied
    iterating,  \* Cursor._iterator is set
    exhausted,  \* a pull has raised StopIteration
    returned,   \* Cursor.returned
    yielded,    \* the items __next__ has returned so far
    clast,      \* the last Cursor operation: [op, raised]
    fsys,       \* the filesystem: [dirs, files]
    fslast,     \* the last datastore operation and its outcome
    shim,       \* a SerializerShimDatastore: [serializer, child_datastore]
    shlast,     \* the last operation on the shim and its outcome
    qobj,       \* a Query: [key, limited, limit, offset, offset_key, filters,
                \*   orders]
    qlast,      \* the last operation on the Query: [op, arg, raised, result]
    called      \* the last call of a function of query.py or key.py on its
                \*   own: [fn, ..., result]

keyVars == <<kstring, klast, kprior>>

curVars == <<query, source, pipe, built, iterating, exhausted, returned,
             yielded, clast>>

fsVars == <<fsys, fslast>>

shimVars == <<shim, shlast>>

queryVars == <<qobj, qlast>>

callVars == <<called>>

\* the variables each part leaves alone
notKeyVars == <<curVars, fsVars, shimVars, queryVars, callVars>>
notCurVars == <<keyVars, fsVars, shimVars, queryVars, callVars>>
notFsVars == <<keyVars, curVars, shimVars, queryVars, callVars>>
notShimVars == <<keyVars, curVars, fsVars, queryVars, callVars>>
notQueryVars == <<keyVars, curVars, fsVars, shimVars, callVars>>
notCallVars == <<keyVars, curVars, fsVars, shimVars, queryVars>>

vars == <<kstring, klast, kprior, query, source, pipe, built, iterating,
          exhausted, returned, yielded, clast, fsys, fslast, shim, shlast,
          qobj, qlast, called>>

----------------------------------------------------------------------------
(* Bounds *)

\* longest string (in tokens) a Key is built from or grows to
MaxLen == 4
\* longest argument (in tokens) given to Key.child
MaxSeg == 2
\* longest source sequence a Cursor is constructed over
MaxSrc == 3
\* largest query offset
MaxOffset == 2
\* largest query limit
MaxLimit == 2
\* deepest nesting of mappings in a value put through a serializer
MaxDepth == 1
\* most filters added to a Query under test
MaxFilters == 2
\* most orders added to a Query under test
MaxOrders == 2
\* most values put through a shim before it is queried
MaxStored == 2

\* the tokens Key strings are drawn from
KeyTokens == {"/", ":", "a"}

RECURSIVE StrsUpTo(_, _)
StrsUpTo(T, n) ==
    IF n = 0 THEN {<<>>}
    ELSE LET shorter == StrsUpTo(T, n - 1)
         IN  shorter \cup {Append(s, t) : s \in shorter, t \in T}

----------------------------------------------------------------------------
(* Python string operations *)

RECURSIVE SplitAcc(_, _, _, _)
SplitAcc(s, sep, i, cur) ==
    IF i > Len(s) THEN <<cur>>
    ELSE IF s[i] = sep THEN <<cur>> \o SplitAcc(s, sep, i + 1, <<>>)
    ELSE SplitAcc(s, sep, i + 1, Append(cur, s[i]))

\* str.split(sep)
split(s, sep) == SplitAcc(s, sep, 1, <<>>)

\* sep.join(parts)
RECURSIVE join(_, _)
join(parts, sep) ==
    IF parts = <<>> THEN <<>>
    ELSE IF Len(parts) = 1 THEN parts[1]
    ELSE parts[1] \o <<sep>> \o join(Tail(parts), sep)

\* `sep in s`
contains_char(s, sep) == \E i \in 1..Len(s) : s[i] = sep

\* s.startswith(p)
startswith(s, p) == Len(p) <= Len(s) /\ SubSeq(s, 1, Len(p)) = p

----------------------------------------------------------------------------
(* core/key.py *)

\* a mutant of removeDuplicateSlashes: empty segments are kept
removeDuplicateSlashes_keepEmpty(path) == <<"/">> \o path

\* Key.removeDuplicateSlashes
removeDuplicateSlashes(path) ==
    <<"/">> \o join(SelectSeq(split(path, "/"), LAMBDA p : p # <<>>), "/")

\* Key.__init__ on a string
KeyOfStr(key) == removeDuplicateSlashes(key)

\* Key.__init__ on a list: the list is joined with '/' first
KeyOfList(key) == removeDuplicateSlashes(join(key, "/"))

\* Key.klist
klist(k) == split(k, "/")

\* a mutant of Key.child: the separator is left out
child_nosep(k, other) == KeyOfStr(k \o other)

\* Key.child
child(k, other) == KeyOfStr(k \o <<"/">> \o other)

\* Key.parent: the result, or the error it raises
parent(k) ==
    IF contains_char(k, "/")
    THEN [raised |-> "none",
          key    |-> KeyOfList(SubSeq(klist(k), 1, Len(klist(k)) - 1))]
    ELSE [raised |-> "ValueError", key |-> k]

\* the code point of a character a Key is made of
ord(c) == CASE c = "/" -> 47 [] c = ":" -> 58 [] c = "a" -> 97

\* s < t on strings: at the first difference the smaller character, else
\* the shorter string
RECURSIVE str_lt(_, _)
str_lt(s, t) ==
    IF t = <<>> THEN FALSE
    ELSE IF s = <<>> THEN TRUE
    ELSE IF Head(s) # Head(t) THEN ord(Head(s)) < ord(Head(t))
    ELSE str_lt(Tail(s), Tail(t))

\* Key.__eq__
Key__eq__(k, other) == k = other

\* a mutant of Key.__lt__: <= in place of <
Key__lt__or_equal(k, other) == str_lt(k, other) \/ k = other

\* Key.__lt__
Key__lt__(k, other) == str_lt(k, other)

\* a > b on Keys: Key defines no __gt__, the reflected __lt__ is used
Key__gt__(k, other) == Key__lt__(other, k)

\* a mutant of Key.isAncestorOf: the separator is not appended
isAncestorOf_noslash(k, other) == startswith(other, k)

\* Key.isAncestorOf
isAncestorOf(k, other) == startswith(other, k \o <<"/">>)

\* Key.isDescendantOf
isDescendantOf(k, other) == isAncestorOf(other, k)

----------------------------------------------------------------------------
(* query.py: values, items, Filter and Order *)

\* A value is absent (None) or an integer.
NoneV == [t |-> "none", v |-> 0]
IntV(n) == [t |-> "int", v |-> n]

\* an exception in place of a value
RaisedV(e) == [t |-> e, v |-> 0]

\* An object is a record.  A mapping (a dict) is the record of its entries.
\* An instance of a plain class is [__dict__ |-> its attributes]; a number
\* is [__int__ |-> n].  Neither of the two supports `in`.  A string is
\* [__str__ |-> its text]: `field in obj` is the substring test and
\* obj[field] raises TypeError.  The texts and the fields are chosen so that
\* a field is a substring of a text exactly when it is one of its tokens.
IsMapping(obj) ==
    /\ "__dict__" \notin DOMAIN obj
    /\ "__int__" \notin DOMAIN obj
    /\ "__str__" \notin DOMAIN obj

\* hasattr(obj, field), for a field that names no method of obj's type
hasattr(obj, field) ==
    "__dict__" \in DOMAIN obj /\ field \in DOMAIN obj["__dict__"]

\* _object_getattr: the attribute, else the entry when `field in obj`, else
\* None; `field in obj` raises TypeError on an object that is no container
_object_getattr(obj, field) ==
    IF hasattr(obj, field) THEN obj["__dict__"][field]
    ELSE IF "__str__" \in DOMAIN obj
    THEN IF \E i \in 1..Len(obj["__str__"]) : obj["__str__"][i] = field
         THEN RaisedV("TypeError") ELSE NoneV
    ELSE IF ~IsMapping(obj) THEN RaisedV("TypeError")
    ELSE IF field \in DOMAIN obj THEN obj[field]
    ELSE NoneV

\* the builtin cmp: None sorts before every integer
cmp(x, y) ==
    IF x.t = "none" /\ y.t = "none" THEN 0
    ELSE IF x.t = "none" THEN -1
    ELSE IF y.t = "none" THEN 1
    ELSE IF x.v < y.v THEN -1
    ELSE IF x.v > y.v THEN 1
    ELSE 0

\* Filter._conditional_cmp
_conditional_cmp(op, a, b) ==
    CASE op = "<"  -> cmp(a, b) < 0
      [] op = "<=" -> cmp(a, b) <= 0
      [] op = "="  -> a = b
      [] op = "!=" -> a # b
      [] op = ">=" -> cmp(a, b) >= 0
      [] op = ">"  -> cmp(a, b) > 0

\* self.value.__class__(value): the conversion of a value to type t
Coerce(value, t) == IF t = "int" THEN IntV(value.v) ELSE NoneV

\* Filter.valuePasses
valuePasses(f, value) == _conditional_cmp(f.op, value, f.value)

\* Filter.__call__
FilterCall(f, obj) ==
    LET value == _object_getattr(obj, f.field)
    IN  IF value.t # f.value.t /\ f.value.t # "none" /\ value.t # "none"
        THEN valuePasses(f, Coerce(value, f.value.t))
        ELSE valuePasses(f, value)

\* the exception Filter.__call__ raises: the one _object_getattr raises
FilterCall_raised(f, obj) ==
    LET value == _object_getattr(obj, f.field)
    IN  IF value.t \in {"none", "int"} THEN "none" ELSE value.t

\* Order.keyfn
keyfn(o, obj) == _object_getattr(obj, o.field)

\* a mutant of cmpfn: only the first order is compared
cmpfn_first_only(orders, a, b) ==
    IF orders = <<>> THEN 0
    ELSE cmp(_object_getattr(a, orders[1].field),
             _object_getattr(b, orders[1].field))
            * (IF orders[1].op = "+" THEN 1 ELSE -1)

\* the cmpfn that Order.multipleOrderComparison returns
RECURSIVE cmpfn(_, _, _)
cmpfn(orders, a, b) ==
    IF orders = <<>> THEN 0
    ELSE LET o == Head(orders)
             ascOrDesc == IF o.op = "+" THEN 1 ELSE -1
             comparison == cmp(keyfn(o, a), keyfn(o, b)) * ascOrDesc
         IN  IF comparison # 0 THEN comparison
             ELSE cmpfn(Tail(orders), a, b)

\* one step of the stable sort: item goes after every element not greater
RECURSIVE InsertSorted(_, _, _)
InsertSorted(lst, item, orders) ==
    IF lst = <<>> THEN <<item>>
    ELSE IF cmpfn(orders, Head(lst), item) > 0 THEN <<item>> \o lst
    ELSE <<Head(lst)>> \o InsertSorted(Tail(lst), item, orders)

RECURSIVE SortAcc(_, _, _)
SortAcc(items, orders, acc) ==
    IF items = <<>> THEN acc
    ELSE SortAcc(Tail(items), orders, InsertSorted(acc, Head(items), orders))

\* Order.osorted: sorted() is a stable sort under cmpfn
osorted(items, orders) == SortAcc(items, orders, <<>>)

\* the exception Order.osorted raises: sorted() compares every item of a
\* list of two or more with another, and cmpfn reads the first order's key
\* of both
osorted_raised(items, orders) ==
    IF /\ orders # <<>>
       /\ Len(items) >= 2
       /\ \E i \in 1..Len(items) :
             keyfn(orders[1], items[i]).t \notin {"none", "int"}
    THEN "TypeError" ELSE "none"

----------------------------------------------------------------------------
(* query.py: the generators a Cursor is made of.  Cursor._iterable is the  *)
(* source with a stack of stages over it; stage k pulls from stage k - 1,  *)
(* and stage 0 is the source.  A stage is                                  *)
(*   filter: Filter.generator, one per filter                              *)
(*   sorted: the list Order.osorted returned, with the iterator's index    *)
(*   offset: offset_gen, n the offset still to skip                        *)
(*   limit : limit_gen, n the limit still to yield                         *)
(* and fin says that the generator has returned.                           *)

NoFilter == [field |-> "", op |-> "=", value |-> NoneV]
NoItem == [stop |-> NoneV]

FilterStage(f) ==
    [kind |-> "filter", f |-> f, n |-> 0, items |-> <<>>, fin |-> FALSE]
SortedStage(items) ==
    [kind |-> "sorted", f |-> NoFilter, n |-> 0, items |-> items, fin |-> FALSE]
OffsetStage(n) ==
    [kind |-> "offset", f |-> NoFilter, n |-> n, items |-> <<>>, fin |-> FALSE]
LimitStage(n) ==
    [kind |-> "limit", f |-> NoFilter, n |-> n, items |-> <<>>, fin |-> FALSE]

\* what next() gives: an item, StopIteration, or another exception
StopIteration(p) ==
    [ok |-> FALSE, item |-> NoItem, p |-> p, raised |-> "StopIteration"]
Yield(item, p) == [ok |-> TRUE, item |-> item, p |-> p, raised |-> "none"]
Raise(e, p) == [ok |-> FALSE, item |-> NoItem, p |-> p, raised |-> e]

\* a mutant of limit_gen: the loop breaks one item late
limit_reached_late(limit) == limit < 0

\* limit_gen: `if limit <= 0: break`
limit_reached(limit) == limit <= 0

\* a mutant of offset_gen: one item too many is skipped
offset_pending_one_more(offset) == offset >= 0

\* offset_gen: `if offset > 0`
offset_pending(offset) == offset > 0

\* a mutant of Cursor._skipped_inc: the count is not kept
_skipped_inc_forgets(skipped) == skipped

\* Cursor._skipped_inc
_skipped_inc(skipped) == skipped + 1

\* next() on stage k of pipeline p, over the sequence src: the item or
\* StopIteration, and the pipeline afterwards
RECURSIVE PullFrom(_, _, _)
PullFrom(k, p, src) ==
    IF k = 0
    THEN IF p.srcpos < Len(src)
         THEN Yield(src[p.srcpos + 1], [p EXCEPT !.srcpos = @ + 1])
         ELSE StopIteration(p)
    ELSE LET s == p.stages[k]
         IN  IF s.fin THEN StopIteration(p)
             ELSE IF s.kind = "sorted"
             THEN IF s.n < Len(s.items)
                  THEN Yield(s.items[s.n + 1], [p EXCEPT !.stages[k].n = @ + 1])
                  ELSE StopIteration([p EXCEPT !.stages[k].fin = TRUE])
             ELSE LET r == PullFrom(k - 1, p, src)
                  IN  IF ~r.ok
                      THEN Raise(r.raised, [r.p EXCEPT !.stages[k].fin = TRUE])
                      ELSE CASE s.kind = "filter" ->
                                  IF FilterCall_raised(s.f, r.item) # "none"
                                  THEN Raise(FilterCall_raised(s.f, r.item),
                                         [r.p EXCEPT !.stages[k].fin = TRUE])
                                  ELSE IF FilterCall(s.f, r.item)
                                  THEN Yield(r.item, r.p)
                                  ELSE PullFrom(k, r.p, src)
                             [] s.kind = "offset" ->
                                  IF offset_pending(s.n)
                                  THEN PullFrom(k,
                                         [r.p EXCEPT !.stages[k].n = @ - 1,
                                                     !.skipped = _skipped_inc(@)],
                                         src)
                                  ELSE Yield(r.item, r.p)
                             [] s.kind = "limit" ->
                                  IF limit_reached(s.n)
                                  THEN StopIteration(
                                         [r.p EXCEPT !.stages[k].fin = TRUE])
                                  ELSE Yield(r.item,
                                         [r.p EXCEPT !.stages[k].n = @ - 1])

\* next() on the whole pipeline
Pull(p, src) == PullFrom(Len(p.stages), p, src)

\* running the pipeline to its end, as sorted() and list() do: the items
\* yielded, and the exception that ended it if not StopIteration
RECURSIVE DrainAcc(_, _, _)
DrainAcc(p, src, acc) ==
    LET r == Pull(p, src)
    IN  IF r.ok THEN DrainAcc(r.p, src, Append(acc, r.item))
        ELSE [items |-> acc, p |-> r.p,
              raised |-> IF r.raised = "StopIteration" THEN "none"
                         ELSE r.raised]

Drain(p, src) == DrainAcc(p, src, <<>>)

\* a mutant of Filter.filter: only the first filter is applied
filter_first_only(filters, p) ==
    IF filters = <<>> THEN p
    ELSE [p EXCEPT !.stages = Append(@, FilterStage(filters[1]))]

\* Filter.filter: one generator per filter, each over the one before
RECURSIVE filter(_, _)
filter(filters, p) ==
    IF filters = <<>> THEN p
    ELSE filter(Tail(filters),
                [p EXCEPT !.stages = Append(@, FilterStage(Head(filters)))])

\* Cursor.apply_filter, after _ensure_modification_is_safe
apply_filter(q, p, src) ==
    IF Len(q.filters) > 0 THEN filter(q.filters, p) ELSE p

\* a mutant of Cursor.apply_order: the orders are ignored
apply_order_unsorted(q, p, src) == p

\* Cursor.apply_order: osorted runs the pipeline to its end
apply_order(q, p, src) ==
    IF Len(q.orders) > 0
    THEN LET d == Drain(p, src)
         IN  [d.p EXCEPT !.stages = Append(@, SortedStage(osorted(d.items, q.orders)))]
    ELSE p

\* Cursor.apply_offset
apply_offset(q, p, src) ==
    IF q.offset # 0
    THEN [p EXCEPT !.stages = Append(@, OffsetStage(q.offset))]
    ELSE p

\* Cursor.apply_limit
apply_limit(q, p, src) ==
    IF q.limited
    THEN [p EXCEPT !.stages = Append(@, LimitStage(q.limit))]
    ELSE p

\* a mutant of Cursor.__iter__: a second iteration is allowed
iter_twice_allowed(it) == FALSE

\* Cursor.__iter__: `if self._iterator: raise RuntimeError`
iter_twice(it) == it

\* a mutant of _ensure_modification_is_safe: the assertion is left out
modification_unsafe_never(it) == FALSE

\* Cursor._ensure_modification_is_safe: `assert not self._iterator`
modification_unsafe(it) == it

----------------------------------------------------------------------------
(* filesystem/filesystem.py: paths.  A path is a string; the filesystem    *)
(* resolves it to a node, the sequence of the names from "/" down.         *)

\* str.replace(old, new) for single characters
replace(s, old, new) == [i \in 1..Len(s) |-> IF s[i] = old THEN new ELSE s[i]]

\* the loop of posixpath.normpath over the components
RECURSIVE NormComps(_, _, _)
NormComps(comps, new_comps, initial_slashes) ==
    IF comps = <<>> THEN new_comps
    ELSE LET comp == Head(comps)
             rest == Tail(comps)
         IN  IF comp = <<>> \/ comp = <<".">>
             THEN NormComps(rest, new_comps, initial_slashes)
             ELSE IF \/ comp # <<"..">>
                     \/ (initial_slashes = 0 /\ new_comps = <<>>)
                     \/ (new_comps # <<>> /\ new_comps[Len(new_comps)] = <<"..">>)
             THEN NormComps(rest, Append(new_comps, comp), initial_slashes)
             ELSE IF new_comps # <<>>
             THEN NormComps(rest, SubSeq(new_comps, 1, Len(new_comps) - 1),
                            initial_slashes)
             ELSE NormComps(rest, new_comps, initial_slashes)

\* os.path.normpath (posixpath)
normpath(path) ==
    IF path = <<>> THEN <<".">>
    ELSE LET initial_slashes ==
                 IF ~startswith(path, <<"/">>) THEN 0
                 ELSE IF startswith(path, <<"/", "/">>)
                         /\ ~startswith(path, <<"/", "/", "/">>) THEN 2
                 ELSE 1
             joined == join(NormComps(split(path, "/"), <<>>, initial_slashes), "/")
             result == [i \in 1..initial_slashes |-> "/"] \o joined
         IN  IF result = <<>> THEN <<".">> ELSE result

\* os.path.join(a, b) (posixpath)
os_path_join(a, b) ==
    IF startswith(b, <<"/">>) THEN b
    ELSE IF a = <<>> \/ a[Len(a)] = "/" THEN a \o b
    ELSE a \o <<"/">> \o b

\* s.rstrip('/')
RECURSIVE rstrip_slash(_)
rstrip_slash(s) ==
    IF s # <<>> /\ s[Len(s)] = "/" THEN rstrip_slash(SubSeq(s, 1, Len(s) - 1))
    ELSE s

\* os.path.dirname (posixpath)
os_path_dirname(p) ==
    LET slashes == {i \in 1..Len(p) : p[i] = "/"}
        i == IF slashes = {} THEN 0
             ELSE CHOOSE j \in slashes : \A k \in slashes : k <= j
        head == SubSeq(p, 1, i)
    IN  IF head # <<>> /\ (\E j \in 1..Len(head) : head[j] # "/")
        THEN rstrip_slash(head) ELSE head

\* the directory the datastore is mounted at: FileSystemDatastore('/data')
root_path == normpath(<<"/", "data">>)

\* a mutant of relative_path: the namespace delimiter is kept
relative_path_keeps_colon(key) == normpath(Tail(key))

\* FileSystemDatastore.relative_path, case_sensitive being True
relative_path(key) == normpath(Tail(replace(key, ":", "/")))

\* FileSystemDatastore.path
path(key) == os_path_join(root_path, relative_path(key))

\* FileSystemDatastore.object_extension
object_extension == <<".obj">>

\* FileSystemDatastore.relative_object_path
relative_object_path(key) == relative_path(key) \o object_extension

\* FileSystemDatastore.object_path
object_path(key) == os_path_join(root_path, relative_object_path(key))

\* the node an absolute path names: names from "/" down, "." dropped and
\* ".." taken upwards
RECURSIVE ResolveComps(_, _)
ResolveComps(comps, node) ==
    IF comps = <<>> THEN node
    ELSE LET comp == Head(comps)
         IN  IF comp = <<>> \/ comp = <<".">>
             THEN ResolveComps(Tail(comps), node)
             ELSE IF comp = <<"..">>
             THEN ResolveComps(Tail(comps),
                               IF node = <<>> THEN node
                               ELSE SubSeq(node, 1, Len(node) - 1))
             ELSE ResolveComps(Tail(comps), Append(node, comp))

Resolve(p) == ResolveComps(split(p, "/"), <<>>)

\* the nodes above node n, "/" included, n excluded
Ancestors(n) == {SubSeq(n, 1, i) : i \in 0..(Len(n) - 1)}

----------------------------------------------------------------------------
(* filesystem/filesystem.py: the operations, on a filesystem fs =           *)
(* [dirs, files]: the set of directory nodes and the contents of the file  *)
(* nodes.                                                                  *)

\* os.path.exists
os_path_exists(fs, p) == Resolve(p) \in fs.dirs \/ Resolve(p) \in DOMAIN fs.files

\* os.path.isfile
os_path_isfile(fs, p) == Resolve(p) \in DOMAIN fs.files

\* os.path.isdir
os_path_isdir(fs, p) == Resolve(p) \in fs.dirs

\* os.makedirs: fails when a name on the way is a file
os_makedirs(fs, p) ==
    LET n == Resolve(p)
    IN  IF \E a \in Ancestors(n) : a \in DOMAIN fs.files
        THEN [raised |-> "OSError", fs |-> fs]
        ELSE [raised |-> "none",
              fs |-> [fs EXCEPT !.dirs = @ \cup Ancestors(n) \cup {n}]]

\* ensure_directory_exists
ensure_directory_exists(fs, directory) ==
    IF ~os_path_exists(fs, directory) THEN os_makedirs(fs, directory)
    ELSE IF os_path_isfile(fs, directory)
    THEN [raised |-> "RuntimeError", fs |-> fs]
    ELSE [raised |-> "none", fs |-> fs]

\* open(path, 'w'), write, flush, fdatasync: fails on a directory
open_write(fs, p, value) ==
    IF os_path_isdir(fs, p) THEN [raised |-> "IOError", fs |-> fs]
    ELSE [raised |-> "none",
          fs |-> [fs EXCEPT !.files =
                     [n \in DOMAIN @ \cup {Resolve(p)} |->
                         IF n = Resolve(p) THEN value ELSE @[n]]]]

\* a mutant of _write_object: the value is written to the directory's path
_write_object_to_dirname(fs, p, value) ==
    open_write(fs, os_path_dirname(p) \o object_extension, value)

\* FileSystemDatastore._write_object
_write_object(fs, p, value) ==
    LET e == ensure_directory_exists(fs, os_path_dirname(p))
    IN  IF e.raised # "none" THEN e ELSE open_write(e.fs, p, value)

NoValue == [none |-> TRUE, v |-> ""]
Value(v) == [none |-> FALSE, v |-> v]

\* FileSystemDatastore._read_object: None, an error, or the contents
_read_object(fs, p) ==
    IF ~os_path_exists(fs, p) THEN [raised |-> "none", value |-> NoValue]
    ELSE IF os_path_isdir(fs, p)
    THEN [raised |-> "RuntimeError", value |-> NoValue]
    ELSE [raised |-> "none", value |-> Value(fs.files[Resolve(p)])]

\* FileSystemDatastore.get
get(fs, key) == _read_object(fs, object_path(key))

\* FileSystemDatastore.put
put(fs, key, value) == _write_object(fs, object_path(key), value)

\* FileSystemDatastore.delete: os.remove fails on a directory
delete(fs, key) ==
    LET p == object_path(key)
    IN  IF ~os_path_exists(fs, p) THEN [raised |-> "none", fs |-> fs]
        ELSE IF os_path_isdir(fs, p) THEN [raised |-> "OSError", fs |-> fs]
        ELSE [raised |-> "none",
              fs |-> [fs EXCEPT !.files =
                         [n \in DOMAIN @ \ {Resolve(p)} |-> @[n]]]]

\* FileSystemDatastore.contains
contains(fs, key) ==
    os_path_exists(fs, object_path(key)) /\ os_path_isfile(fs, object_path(key))

\* os.listdir(p): the names of the entries of the directory p
os_listdir(fs, p) ==
    {n[Len(n)] : n \in {m \in fs.dirs \cup DOMAIN fs.files :
                           /\ m # <<>>
                           /\ SubSeq(m, 1, Len(m) - 1) = Resolve(p)}}

\* the orders os.listdir and list(set(...)) may give the names in
Listings(names) ==
    {l \in [1..Cardinality(names) -> names] :
        \A i, j \in 1..Cardinality(names) : i # j => l[i] # l[j]}

\* FileSystemDatastore._read_object_gen, pulled to its end: the objects
\* read until _read_object raises
RECURSIVE _read_object_gen(_, _, _)
_read_object_gen(fs, filenames, acc) ==
    IF filenames = <<>> THEN [raised |-> "none", items |-> acc]
    ELSE LET r == _read_object(fs, Head(filenames))
         IN  IF r.raised # "none" THEN [raised |-> r.raised, items |-> acc]
             ELSE _read_object_gen(fs, Tail(filenames), Append(acc, r.value))

\* FileSystemDatastore.query, for a Query with a scope key and no filter,
\* order, offset or limit, and the iteration of its Cursor to the end.
\* listing is the order the names come in; os.listdir of a file raises.
FileSystemDatastore_query(fs, key, listing) ==
    LET p == path(key)
        filenames == [i \in 1..Len(listing) |-> os_path_join(p, listing[i])]
        g == _read_object_gen(fs, filenames, <<>>)
    IN  IF ~os_path_exists(fs, p)
        THEN [at |-> "next", raised |-> "none", items |-> <<>>]
        ELSE IF os_path_isfile(fs, p)
        THEN [at |-> "query", raised |-> "OSError", items |-> <<>>]
        ELSE [at |-> "next", raised |-> g.raised, items |-> g.items]

\* FileSystemDatastore.__init__: the root directory exists and is empty
NewFilesystem ==
    [dirs  |-> Ancestors(Resolve(root_path)) \cup {Resolve(root_path)},
     files |-> [n \in {} |-> ""]]

----------------------------------------------------------------------------
(* The states of the parts a specification does not exercise *)

NoOp == [op |-> "none", arg |-> <<>>, before |-> <<>>, raised |-> "none"]

KeyIdle == kstring = <<"/">> /\ klast = NoOp /\ kprior = NoOp

NoQuery ==
    [filters |-> <<>>, orders |-> <<>>, offset |-> 0, limited |-> FALSE,
     limit |-> 0]

NewPipe == [srcpos |-> 0, stages |-> <<>>, skipped |-> 0]

CurIdle ==
    /\ query = NoQuery /\ source = <<>> /\ pipe = NewPipe
    /\ built = 0 /\ iterating = FALSE /\ exhausted = FALSE
    /\ returned = 0 /\ yielded = <<>>
    /\ clast = [op |-> "none", raised |-> "none"]

FsIdle ==
    /\ fsys = NewFilesystem
    /\ fslast = [op |-> "none", key |-> <<"/">>, value |-> "", raised |-> "none",
                 result |-> NoValue, found |-> FALSE, before |-> NoValue,
                 items |-> <<>>]

ShimIdle ==
    /\ shim = [serializer |-> <<>>, child_datastore |-> <<>>]
    /\ shlast = [op |-> "none", key |-> <<>>, value |-> <<>>, result |-> <<>>]

QueryIdle ==
    /\ qobj = [key |-> <<"/">>]
    /\ qlast = [op |-> "none", arg |-> <<>>, raised |-> "none", result |-> <<>>]

CallIdle == called = [fn |-> "none"]

NotKeyIdle == CurIdle /\ FsIdle /\ ShimIdle /\ QueryIdle /\ CallIdle
NotCurIdle == KeyIdle /\ FsIdle /\ ShimIdle /\ QueryIdle /\ CallIdle
NotFsIdle == KeyIdle /\ CurIdle /\ ShimIdle /\ QueryIdle /\ CallIdle
NotShimIdle == KeyIdle /\ CurIdle /\ FsIdle /\ QueryIdle /\ CallIdle
NotQueryIdle == KeyIdle /\ CurIdle /\ FsIdle /\ ShimIdle /\ CallIdle
NotCallIdle == KeyIdle /\ CurIdle /\ FsIdle /\ ShimIdle /\ QueryIdle

----------------------------------------------------------------------------
(* The Key state machine: a Key is constructed, then child, parent and     *)
(* Key(str(.)) are applied to it.                                           *)

KeyInit ==
    \E s \in StrsUpTo(KeyTokens, MaxLen) :
        /\ kstring = KeyOfStr(s)
        /\ klast = [op |-> "Key", arg |-> s, before |-> <<>>, raised |-> "none"]
        /\ kprior = NoOp
        /\ NotKeyIdle

\* k = Key(str(k))
ReKey ==
    /\ kstring' = KeyOfStr(kstring)
    /\ klast' = [op |-> "rekey", arg |-> <<>>, before |-> kstring, raised |-> "none"]
    /\ kprior' = klast
    /\ UNCHANGED notKeyVars

\* k = k.child(x)
Child(x) ==
    /\ Len(child(kstring, x)) <= MaxLen
    /\ kstring' = child(kstring, x)
    /\ klast' = [op |-> "child", arg |-> x, before |-> kstring, raised |-> "none"]
    /\ kprior' = klast
    /\ UNCHANGED notKeyVars

\* k = k.parent
Parent ==
    LET r == parent(kstring)
    IN  /\ kstring' = r.key
        /\ klast' = [op |-> "parent", arg |-> <<>>, before |-> kstring,
                     raised |-> r.raised]
        /\ kprior' = klast
        /\ UNCHANGED notKeyVars

KeyNext ==
    \/ ReKey
    \/ \E x \in StrsUpTo(KeyTokens, MaxSeg) : Child(x)
    \/ Parent

SpecKey == KeyInit /\ [][KeyNext]_vars

----------------------------------------------------------------------------
(* Claims about Keys, checked under SpecKey *)

NoSlash(x) == ~contains_char(x, "/")

\* the last two operations were k.child(x) and then .parent
ChildThenParent == klast.op = "parent" /\ kprior.op = "child"

\* C1 (as stated): for every Key k and every segment x that contains no '/',
\* k.child(x).parent == k.
C1_ChildParentAnySegment ==
    (ChildThenParent /\ NoSlash(kprior.arg))
        => (klast.raised = "none" /\ kstring = kprior.before)

\* C1 (amended): for every Key k and every non-empty segment x that contains
\* no '/', k.child(x).parent == k.
C1_ChildParent ==
    (ChildThenParent /\ NoSlash(kprior.arg) /\ kprior.arg # <<>>)
        => (klast.raised = "none" /\ kstring = kprior.before)

\* a non-root key was given a non-empty child segment and the parent was taken
C1_Witness ==
    /\ ChildThenParent
    /\ NoSlash(kprior.arg) /\ kprior.arg # <<>>
    /\ kprior.before # <<"/">>
    /\ kstring = kprior.before

\* starts with '/', holds no empty segment, ends with '/' only when it is '/'
Normalized(k) ==
    /\ Len(k) >= 1 /\ k[1] = "/"
    /\ \A i \in 1..(Len(k) - 1) : ~(k[i] = "/" /\ k[i + 1] = "/")
    /\ (k[Len(k)] = "/" => k = <<"/">>)

HasDoubleSlash(s) == \E i \in 1..(Len(s) - 1) : s[i] = "/" /\ s[i + 1] = "/"

\* C2: normalization is idempotent, its result starts with '/', has no empty
\* segment and no trailing '/' unless it is the root, and
\* Key(str(Key(s))) == Key(s).
C2_Normalization ==
    /\ Normalized(kstring)
    /\ removeDuplicateSlashes(kstring) = kstring
    /\ klast.op = "Key" =>
          /\ kstring = removeDuplicateSlashes(klast.arg)
          /\ removeDuplicateSlashes(removeDuplicateSlashes(klast.arg))
                = removeDuplicateSlashes(klast.arg)
    /\ klast.op = "rekey" => kstring = klast.before

\* a Key built from a string with duplicate slashes was rebuilt from its str
C2_Witness ==
    /\ klast.op = "rekey" /\ kprior.op = "Key"
    /\ HasDoubleSlash(kprior.arg)
    /\ kstring # <<"/">>

\* C3: Key.parent fails with ValueError on a root key and returns a Key only
\* for keys that have a parent.
C3_ParentOfRootRaises ==
    (klast.op = "parent" /\ klast.before = <<"/">>)
        => klast.raised = "ValueError"

----------------------------------------------------------------------------
(* The Cursor state machine.  A Cursor is constructed over a query and a   *)
(* source; the four passes are applied by Query.__call__ in one call, or   *)
(* one by one in the same order (as TestQueries.subtest_cursor does); the  *)
(* built Cursor is then iterated.  Any apply_* may be called again once    *)
(* iteration has begun.                                                    *)

\* the objects queried: mappings with the fields a and id; ItemN has no a
ItemX == [a |-> IntV(2), id |-> IntV(1)]
ItemY == [a |-> IntV(1), id |-> IntV(2)]
ItemN == [id |-> IntV(3)]
Items == {ItemX, ItemY, ItemN}

Sources == StrsUpTo(Items, MaxSrc)

FilterA == [field |-> "a", op |-> "<=", value |-> IntV(1)]
FilterId == [field |-> "id", op |-> "!=", value |-> IntV(3)]
FilterChoices == {<<>>, <<FilterA>>, <<FilterA, FilterId>>}

OrderChoices ==
    {<<>>, <<[op |-> "-", field |-> "a"]>>,
     <<[op |-> "+", field |-> "a"], [op |-> "-", field |-> "id"]>>}

\* Query.__init__ followed by Query.filter and Query.order; a limit of
\* None is limited = FALSE
Queries ==
    {[filters |-> fs, orders |-> os, offset |-> o, limited |-> ld, limit |-> l] :
        fs \in FilterChoices, os \in OrderChoices, o \in 0..MaxOffset,
        ld \in BOOLEAN, l \in 0..MaxLimit}
    \ {q \in [filters : FilterChoices, orders : OrderChoices,
              offset : 0..MaxOffset, limited : {FALSE}, limit : 1..MaxLimit] : TRUE}

\* Cursor.__init__
CurInit ==
    /\ query \in Queries
    /\ source \in Sources
    /\ pipe = NewPipe
    /\ built = 0 /\ iterating = FALSE /\ exhausted = FALSE
    /\ returned = 0 /\ yielded = <<>>
    /\ clast = [op |-> "Cursor", raised |-> "none"]
    /\ NotCurIdle

\* an apply_* call: the assertion of _ensure_modification_is_safe, then
\* the pass.  Before iteration the passes are called in pipeline order.
ApplyPass(name, position, newpipe) ==
    /\ iterating \/ built = position
    /\ clast' = [op |-> name,
                 raised |-> IF modification_unsafe(iterating)
                            THEN "AssertionError" ELSE "none"]
    /\ IF modification_unsafe(iterating)
       THEN UNCHANGED <<pipe, built>>
       ELSE /\ pipe' = newpipe
            /\ built' = IF built = position THEN position + 1 ELSE built
    /\ UNCHANGED <<query, source, iterating, exhausted, returned, yielded>>
    /\ UNCHANGED notCurVars

\* cursor.apply_filter()
ApplyFilter == ApplyPass("apply_filter", 0, apply_filter(query, pipe, source))

\* cursor.apply_order()
ApplyOrder == ApplyPass("apply_order", 1, apply_order(query, pipe, source))

\* cursor.apply_offset()
ApplyOffset == ApplyPass("apply_offset", 2, apply_offset(query, pipe, source))

\* cursor.apply_limit()
ApplyLimit == ApplyPass("apply_limit", 3, apply_limit(query, pipe, source))

\* Query.__call__ on the source: the four passes in its fixed order
Query__call__(q, p, src) ==
    apply_limit(q, apply_offset(q, apply_order(q, apply_filter(q, p, src), src), src), src)

\* cursor = query(source)
QueryCall ==
    /\ clast.op = "Cursor"
    /\ pipe' = Query__call__(query, pipe, source)
    /\ built' = 4
    /\ clast' = [op |-> "call", raised |-> "none"]
    /\ UNCHANGED <<query, source, iterating, exhausted, returned, yielded>>
    /\ UNCHANGED notCurVars

\* iter(cursor)
Iter ==
    /\ built = 4
    /\ clast' = [op |-> "iter",
                 raised |-> IF iter_twice(iterating)
                            THEN "RuntimeError" ELSE "none"]
    /\ iterating' = TRUE
    /\ UNCHANGED <<query, source, pipe, built, exhausted, returned, yielded>>
    /\ UNCHANGED notCurVars

\* a mutant of Cursor.__next__: the item is not counted
_returned_inc_forgets(n) == n

\* Cursor._returned_inc
_returned_inc(n) == n + 1

\* next(cursor): begins iteration if it has not begun, pulls one item
NextItem ==
    LET r == Pull(pipe, source)
    IN  /\ built = 4
        /\ iterating' = TRUE
        /\ pipe' = r.p
        /\ returned' = IF r.ok THEN _returned_inc(returned) ELSE returned
        /\ yielded' = IF r.ok THEN Append(yielded, r.item) ELSE yielded
        /\ exhausted' = (exhausted \/ ~r.ok)
        /\ clast' = [op |-> "next",
                     raised |-> r.raised]
        /\ UNCHANGED <<query, source, built>>
        /\ UNCHANGED notCurVars

CurNext ==
    \/ ApplyFilter
    \/ ApplyOrder
    \/ ApplyOffset
    \/ ApplyLimit
    \/ QueryCall
    \/ Iter
    \/ NextItem

SpecCursor == CurInit /\ [][CurNext]_vars

----------------------------------------------------------------------------
(* Claims about Cursors, checked under SpecCursor *)

Min(a, b) == IF a < b THEN a ELSE b

IsPrefix(s, t) == Len(s) <= Len(t) /\ SubSeq(t, 1, Len(s)) = s

\* the item passes every filter of the query
PassesAll(item) ==
    \A i \in 1..Len(query.filters) : FilterCall(query.filters[i], item)

\* the items of the source that pass every filter, in source order
Filtered == SelectSeq(source, PassesAll)

\* sorted(filtered(S))
Ordered ==
    IF query.orders = <<>> THEN Filtered ELSE osorted(Filtered, query.orders)

\* s[o : o + l], or s[o :] without a limit
Slice(s, o, limited, l) ==
    SubSeq(s, o + 1, IF limited THEN Min(o + l, Len(s)) ELSE Len(s))

Expected == Slice(Ordered, query.offset, query.limited, query.limit)

\* C4: the Cursor that Query.__call__ returns yields exactly
\* sorted(filtered(S))[o : o + l]; with a limit and no offset, exactly the
\* first min(l, n) items, n the number of items that pass the filters.
C4_CallYieldsSlice ==
    built = 4 =>
        /\ IsPrefix(yielded, Expected)
        /\ exhausted => yielded = Expected
        /\ ~iterating => Drain(pipe, source).items = Expected
        /\ (exhausted /\ query.limited /\ query.offset = 0) =>
              yielded = SubSeq(Ordered, 1, Min(query.limit, Len(Filtered)))

\* a query whose filters reject an item, whose order moves one, with an
\* offset and a limit, was run to its end and yielded something
C4_Witness ==
    /\ built = 4 /\ exhausted
    /\ Len(Filtered) < Len(source)
    /\ Ordered # Filtered
    /\ query.offset > 0 /\ query.limited
    /\ yielded # <<>>

\* C5: once iteration has begun, every later iter(cursor) fails and yields
\* nothing, whether or not the first iteration ran to completion.
C5_IterateOnce ==
    [][(iterating /\ clast'.op = "iter") =>
          /\ clast'.raised = "RuntimeError"
          /\ UNCHANGED <<pipe, returned, yielded, exhausted, iterating>>]_vars

\* iter(cursor) failed on a cursor that had yielded items and was not at
\* its end
C5_Witness ==
    /\ clast = [op |-> "iter", raised |-> "RuntimeError"]
    /\ returned > 0 /\ ~exhausted

ApplyOps == {"apply_filter", "apply_order", "apply_offset", "apply_limit"}

\* C6: once iteration has begun each apply_* fails with an invariant
\* violation and changes neither the pipeline nor the counters; before
\* iteration has begun each of them succeeds.
C6_ApplyAfterIteration ==
    [][clast'.op \in ApplyOps =>
          IF iterating
          THEN /\ clast'.raised = "AssertionError"
               /\ UNCHANGED <<pipe, built, returned, yielded, iterating>>
          ELSE clast'.raised = "none"]_vars

\* apply_limit failed on a cursor in the middle of its iteration
C6_Witness ==
    /\ clast = [op |-> "apply_limit", raised |-> "AssertionError"]
    /\ returned > 0 /\ ~exhausted /\ pipe.skipped > 0

\* the offset stage of the pipeline, if there is one
OffsetStages == {k \in 1..Len(pipe.stages) : pipe.stages[k].kind = "offset"}

\* the items the offset pass has pulled and not passed on
Discarded ==
    IF OffsetStages = {} THEN 0
    ELSE LET k == CHOOSE k \in OffsetStages : TRUE
         IN  query.offset - pipe.stages[k].n

\* C7: at every point of the iteration, returned is the number of items
\* yielded so far and at most the limit, skipped is the number of items the
\* offset pass has discarded so far and at most the offset, and neither
\* counter ever decreases.
C7_Counters ==
    /\ [](/\ returned = Len(yielded)
          /\ (built = 4 /\ query.limited) => returned <= query.limit
          /\ pipe.skipped = Discarded
          /\ pipe.skipped <= query.offset)
    /\ [][returned' >= returned /\ pipe'.skipped >= pipe.skipped]_vars

\* the caller stopped pulling before the end, after items were skipped and
\* yielded
C7_Witness ==
    /\ iterating /\ ~exhausted
    /\ pipe.skipped > 0 /\ returned > 0
    /\ Len(yielded) < Len(Expected)

\* C8 (as stated): after a fully built Cursor has been iterated to
\* completion, returned is the number of items it yielded and skipped is
\* the query's offset.
C8_SkippedIsOffset ==
    (built = 4 /\ exhausted) =>
        /\ returned = Len(yielded)
        /\ pipe.skipped = query.offset

\* C8 (amended): after a fully built Cursor has been iterated to
\* completion, returned is the number of items it yielded and skipped is
\* the smaller of the query's offset and the number of items that reached
\* the offset pass.
C8_SkippedIsOffsetOrAll ==
    (built = 4 /\ exhausted) =>
        /\ returned = Len(yielded)
        /\ returned = Len(Expected)
        /\ pipe.skipped = Min(query.offset, Len(Filtered))

\* a cursor with an offset and a limit ran to its end with items left over
C8_Witness ==
    /\ built = 4 /\ exhausted
    /\ query.offset > 0 /\ query.limited
    /\ pipe.skipped = query.offset
    /\ returned > 0
    /\ Len(Ordered) > query.offset + query.limit

\* the pipeline holds the filter generators and nothing else
FilterOnly ==
    /\ built >= 1
    /\ \A k \in 1..Len(pipe.stages) : pipe.stages[k].kind = "filter"

\* C9: Filter.filter(F, S), and a Cursor after apply_filter, yields exactly
\* the items of S that pass every filter of F, each once and in their
\* original relative order.
C9_FilterYieldsPassing ==
    FilterOnly =>
        /\ ~iterating => Drain(pipe, source).items = Filtered
        /\ IsPrefix(yielded, Filtered)
        /\ exhausted => yielded = Filtered

\* a cursor with two filters and no other pass ran to its end; some items
\* passed and some did not
C9_Witness ==
    /\ FilterOnly /\ built = 4 /\ exhausted
    /\ Len(query.filters) = 2
    /\ yielded # <<>>
    /\ Len(yielded) < Len(source)
    /\ \E i \in 1..Len(source) :
          FilterCall(query.filters[1], source[i])
              /\ ~FilterCall(query.filters[2], source[i])

----------------------------------------------------------------------------
(* The FileSystemDatastore state machine: put, get, delete and contains on *)
(* one datastore mounted at root_path, with no other writer.               *)

\* the keys used: /a, /a/b, /a:b, /a/:, /a.obj/b, / and /../a
FsKeys ==
    {KeyOfStr(s) : s \in {<<"/", "a">>,
                          <<"/", "a", "/", "b">>,
                          <<"/", "a", ":", "b">>,
                          <<"/", "a", "/", ":">>,
                          <<"/", "a", ".obj", "/", "b">>,
                          <<"/">>,
                          <<"/", "..", "/", "a">>}}

\* the values stored: strings
FsValues == {"x", "y"}

FsInit ==
    /\ fsys = NewFilesystem
    /\ fslast = [op |-> "init", key |-> <<"/">>, value |-> "", raised |-> "none",
                 result |-> NoValue, found |-> FALSE, before |-> NoValue,
                 items |-> <<>>]
    /\ NotFsIdle

\* ds.put(key, value)
Put(key, value) ==
    LET r == put(fsys, key, value)
    IN  /\ fsys' = r.fs
        /\ fslast' = [op |-> "put", key |-> key, value |-> value,
                      raised |-> r.raised, result |-> NoValue, found |-> FALSE,
                      before |-> get(fsys, key).value,
                      items |-> <<>>]
        /\ UNCHANGED notFsVars

\* ds.get(key)
Get(key) ==
    LET r == get(fsys, key)
    IN  /\ fslast' = [op |-> "get", key |-> key, value |-> "",
                      raised |-> r.raised, result |-> r.value, found |-> FALSE,
                      before |-> NoValue,
                 items |-> <<>>]
        /\ UNCHANGED <<fsys, notFsVars>>

\* ds.delete(key)
Delete(key) ==
    LET r == delete(fsys, key)
    IN  /\ fsys' = r.fs
        /\ fslast' = [op |-> "delete", key |-> key, value |-> "",
                      raised |-> r.raised, result |-> NoValue, found |-> FALSE,
                      before |-> get(fsys, key).value,
                      items |-> <<>>]
        /\ UNCHANGED notFsVars

\* ds.contains(key)
Contains(key) ==
    /\ fslast' = [op |-> "contains", key |-> key, value |-> "",
                  raised |-> "none", result |-> NoValue,
                  found |-> contains(fsys, key), before |-> NoValue,
                 items |-> <<>>]
    /\ UNCHANGED <<fsys, notFsVars>>

\* list(ds.query(Query(key)))
FsQuery(key) ==
    \E listing \in Listings(os_listdir(fsys, path(key))) :
        LET r == FileSystemDatastore_query(fsys, key, listing)
        IN  /\ fslast' = [op |-> "query", key |-> key, value |-> "",
                          raised |-> r.raised, result |-> NoValue,
                          found |-> FALSE, before |-> NoValue,
                          items |-> r.items]
            /\ UNCHANGED <<fsys, notFsVars>>

FsNext ==
    \/ \E key \in FsKeys, value \in FsValues : Put(key, value)
    \/ \E key \in FsKeys : Get(key)
    \/ \E key \in FsKeys : Delete(key)
    \/ \E key \in FsKeys : Contains(key)
    \/ \E key \in FsKeys : FsQuery(key)

SpecFS == FsInit /\ [][FsNext]_vars

----------------------------------------------------------------------------
(* Claims about the FileSystemDatastore, checked under SpecFS *)

\* C10: put is an upsert: put(k, v) immediately followed by get(k) returns
\* v and contains(k) is true, whether k held no value or another one.
C10_PutThenGet ==
    fslast.op = "put" =>
        /\ fslast.raised = "none"
        /\ get(fsys, fslast.key) = [raised |-> "none", value |-> Value(fslast.value)]
        /\ contains(fsys, fslast.key)

\* C11: delete(k) never fails for a key that holds no value and changes
\* nothing then; after any delete(k), contains(k) is false and get(k)
\* reports absence without raising.
C11_DeleteIdempotent ==
    /\ [](fslast.op = "delete" =>
            /\ fslast.before = NoValue => fslast.raised = "none"
            /\ ~contains(fsys, fslast.key)
            /\ get(fsys, fslast.key) = [raised |-> "none", value |-> NoValue])
    /\ [][\A key \in FsKeys :
            (Delete(key) /\ ~contains(fsys, key)) => fsys' = fsys]_vars

----------------------------------------------------------------------------
(* serialize.py.  A Python value is a sequence of tokens: its type, then   *)
(* its contents.  Two values are equal (==) exactly when their sequences   *)
(* are: a tuple is not a list, the string '1' is not the number 1.         *)

NoneValue == <<"None">>
IntValue(d) == <<"int", d>>
StrValue(text) == <<"str">> \o text
ListValue(ds) == <<"list">> \o ds
TupleValue(ds) == <<"tuple">> \o ds
\* the one-entry mappings {k: inner} with a string key and {d: inner} with a
\* number key
DictValue(k, inner) == <<"dict", k>> \o inner
IntKeyDict(d, inner) == <<"intdict", d>> \o inner
\* an exception in place of a value
Raised(e) == <<"raise", e>>

\* the text json.dumps writes for a value
RECURSIVE json_text(_)
json_text(v) ==
    CASE v[1] = "None" -> <<"null">>
      [] v[1] = "int" -> <<v[2]>>
      [] v[1] = "str" -> <<"\"">> \o Tail(v) \o <<"\"">>
      [] v[1] \in {"list", "tuple"} ->
            <<"[">> \o join([i \in 1..(Len(v) - 1) |-> <<v[i + 1]>>], ", ")
                \o <<"]">>
      [] v[1] \in {"dict", "intdict"} ->
            <<"{", "\"", v[2], "\"", ": ">>
                \o json_text(SubSeq(v, 3, Len(v))) \o <<"}">>

\* the value json.loads reads from a text
RECURSIVE json_value(_)
json_value(t) ==
    CASE t[1] = "null" -> NoneValue
      [] t[1] = "\"" -> StrValue(SubSeq(t, 2, Len(t) - 1))
      [] t[1] = "[" ->
            ListValue(SelectSeq(SubSeq(t, 2, Len(t) - 1), LAMBDA x : x # ", "))
      [] t[1] = "{" -> DictValue(t[3], json_value(SubSeq(t, 6, Len(t) - 1)))
      [] OTHER -> IntValue(t[1])

\* json.dumps, the default serializer
json_dumps(v) == StrValue(json_text(v))

\* json.loads
json_loads(s) ==
    IF s[1] = "str" THEN json_value(Tail(s)) ELSE Raised("TypeError")

\* MapSerializer.sentinel
sentinel == "@wrapped"

\* MapSerializer.dumps: a value that is not a mapping is wrapped
MapSerializer_dumps(v) ==
    IF v[1] \notin {"dict", "intdict"} THEN DictValue(sentinel, v) ELSE v

\* MapSerializer.loads: len() of a number or of None raises
MapSerializer_loads(v) ==
    IF v[1] \in {"int", "None"} THEN Raised("TypeError")
    ELSE IF v[1] = "dict" /\ v[2] = sentinel THEN SubSeq(v, 3, Len(v))
    ELSE v

\* one serializer class's dumps / loads; an exception passes through.
\* "Serializer" is the base class, whose methods raise; "Lossy" is a class
\* of the caller's that writes json and hands the text back unread.
dumps1(name, v) ==
    IF v[1] = "raise" THEN v
    ELSE CASE name = "json" -> json_dumps(v)
           [] name = "NonSerializer" -> v
           [] name = "MapSerializer" -> MapSerializer_dumps(v)
           [] name = "Serializer" -> Raised("NotImplementedError")
           [] name = "Lossy" -> json_dumps(v)

loads1(name, v) ==
    IF v[1] = "raise" THEN v
    ELSE CASE name = "json" -> json_loads(v)
           [] name = "NonSerializer" -> v
           [] name = "MapSerializer" -> MapSerializer_loads(v)
           [] name = "Serializer" -> Raised("NotImplementedError")
           [] name = "Lossy" -> v

\* Stack.dumps: each serializer in sequence.  A serializer used alone is the
\* stack of itself.
RECURSIVE dumps(_, _)
dumps(serializer, v) ==
    IF serializer = <<>> THEN v
    ELSE dumps(Tail(serializer), dumps1(Head(serializer), v))

\* Stack.loads: the serializers in reverse
RECURSIVE loads(_, _)
loads(serializer, v) ==
    IF serializer = <<>> THEN v
    ELSE loads(SubSeq(serializer, 1, Len(serializer) - 1),
               loads1(serializer[Len(serializer)], v))

\* SerializerShimDatastore.serializedValue
serializedValue(serializer, v) ==
    IF v # NoneValue THEN dumps(serializer, v) ELSE NoneValue

\* a mutant of deserializedValue: the stored value is handed back as it is
deserializedValue_raw(serializer, v) == v

\* SerializerShimDatastore.deserializedValue
deserializedValue(serializer, v) ==
    IF v # NoneValue THEN loads(serializer, v) ELSE NoneValue

\* the child datastore returns what was put, None for a key never put
child_get(store, key) == store[key]
child_put(store, key, v) == [store EXCEPT ![key] = v]

\* SerializerShimDatastore.get
shim_get(sh, key) ==
    deserializedValue(sh.serializer, child_get(sh.child_datastore, key))

\* SerializerShimDatastore.put
shim_put(sh, key, v) ==
    [sh EXCEPT !.child_datastore =
        child_put(@, key, serializedValue(sh.serializer, v))]

\* SerializerShimDatastore.__init__: the serializer must round-trip a test
\* mapping
serializer_works(serializer) ==
    LET test == DictValue("value", StrValue(<<"repr">>))
    IN  loads(serializer, dumps(serializer, test)) = test

\* SerializerShimDatastore.serializer, the class attribute
default_serializer == <<"json">>

NoShim == [serializer |-> <<>>, child_datastore |-> <<>>]

\* a mutant of SerializerShimDatastore.__init__: the serializer is not tried
SerializerShimDatastore__init__unchecked(datastore, serializer) ==
    [raised |-> "none",
     shim |-> [serializer |-> IF serializer # <<>> THEN serializer
                              ELSE default_serializer,
               child_datastore |-> datastore]]

\* SerializerShimDatastore.__init__: `if serializer:` is false for None and
\* for an empty Stack; an exception of loads or dumps passes through, and a
\* result that differs fails the assertion
SerializerShimDatastore__init__(datastore, serializer) ==
    LET s == IF serializer # <<>> THEN serializer ELSE default_serializer
        test == DictValue("value", StrValue(<<"repr">>))
        r == loads(s, dumps(s, test))
    IN  IF r[1] = "raise" THEN [raised |-> r[2], shim |-> NoShim]
        ELSE IF ~serializer_works(s)
        THEN [raised |-> "AssertionError", shim |-> NoShim]
        ELSE [raised |-> "none",
              shim |-> [serializer |-> s, child_datastore |-> datastore]]

----------------------------------------------------------------------------
(* The SerializerShimDatastore state machine: a shim over an empty child   *)
(* store, then put and get.                                                *)

Serializers ==
    {s \in {<<"json">>, <<"NonSerializer">>, <<"MapSerializer">>,
            <<"MapSerializer", "json">>, <<"json", "MapSerializer">>} :
        serializer_works(s)}

ShimKeys == {<<"/", "a">>, <<"/", "b">>}

Atoms ==
    {NoneValue, IntValue("1"), StrValue(<<"1">>), ListValue(<<"1", "2">>),
     TupleValue(<<"1", "2">>)}

RECURSIVE ValuesOfDepth(_)
ValuesOfDepth(n) ==
    IF n = 0 THEN Atoms
    ELSE Atoms \cup {IntKeyDict("1", IntValue("1"))}
            \cup {DictValue(k, x) : k \in {"a", sentinel},
                                    x \in ValuesOfDepth(n - 1)}

ShimValues == ValuesOfDepth(MaxDepth)

ShimInit ==
    /\ \E s \in Serializers :
          shim = [serializer |-> s,
                  child_datastore |-> [k \in ShimKeys |-> NoneValue]]
    /\ shlast = [op |-> "init", key |-> <<>>, value |-> <<>>, result |-> <<>>]
    /\ NotShimIdle

\* shim.put(key, value)
ShimPut(key, v) ==
    /\ shim' = shim_put(shim, key, v)
    /\ shlast' = [op |-> "put", key |-> key, value |-> v, result |-> NoneValue]
    /\ UNCHANGED notShimVars

\* shim.get(key)
ShimGet(key) ==
    /\ shlast' = [op |-> "get", key |-> key, value |-> <<>>,
                  result |-> shim_get(shim, key)]
    /\ UNCHANGED <<shim, notShimVars>>

ShimNext ==
    \/ \E key \in ShimKeys, v \in ShimValues : ShimPut(key, v)
    \/ \E key \in ShimKeys : ShimGet(key)

SpecShim == ShimInit /\ [][ShimNext]_vars

----------------------------------------------------------------------------
(* Claims about the serializer shim, checked under SpecShim *)

\* the serializer can represent v: what it writes for v reads back as v
Representable(serializer, v) == loads(serializer, dumps(serializer, v)) = v

\* C12: over a child store that returns what was put, for every value v the
\* serializer can represent, get(k) after put(k, v) returns a value equal
\* to v.
C12_ShimRoundTrip ==
    (shlast.op = "put" /\ Representable(shim.serializer, shlast.value)) =>
        shim_get(shim, shlast.key) = shlast.value

\* a mapping went through a serializer that changes what is stored, and
\* came back
C12_Witness ==
    /\ shlast.op = "put"
    /\ shlast.value[1] = "dict"
    /\ Representable(shim.serializer, shlast.value)
    /\ shim.child_datastore[shlast.key] # shlast.value
    /\ shim_get(shim, shlast.key) = shlast.value

----------------------------------------------------------------------------
(* query.py: Filter, Order and Query as objects.  A Query is the record of *)
(* its attributes; a limit of None is limited = FALSE; offset_key is None, *)
(* a Key or a string: [t, v].                                              *)

\* Filter.conditional_operators
conditional_operators == {"<", "<=", "=", "!=", ">=", ">"}

\* Filter.__init__
Filter__init__(field, op, value) ==
    IF op \notin conditional_operators
    THEN [raised |-> "ValueError", filter |-> NoFilter]
    ELSE [raised |-> "none",
          filter |-> [field |-> field, op |-> op, value |-> value]]

\* Order.order_operators
order_operators == {"-", "+"}

NoOrder == [op |-> "", field |-> <<>>]

\* Order.__init__: order[0] of the empty string raises IndexError; building
\* the ValueError reads self.op, which is not set yet
Order__init__(order) ==
    IF order = <<>> THEN [raised |-> "IndexError", order |-> NoOrder]
    ELSE IF order[1] \notin order_operators
    THEN [raised |-> "AttributeError", order |-> NoOrder]
    ELSE [raised |-> "none", order |-> [op |-> order[1], field |-> Tail(order)]]

\* Order.__str__
Order__str__(o) == <<o.op>> \o o.field

NoKey == [t |-> "None", v |-> <<>>]

\* Query.__init__: the keyword arguments it reads are limit, offset and
\* offset_key
Query__init__(key, limited, limit, offset, offset_key) ==
    [key |-> key, limited |-> limited, limit |-> IF limited THEN limit ELSE 0,
     offset |-> offset, offset_key |-> offset_key,
     filters |-> <<>>, orders |-> <<>>]

\* Query.order, given a string
Query_order(q, order) ==
    LET o == Order__init__(order)
    IN  IF o.raised # "none" THEN [raised |-> o.raised, query |-> q]
        ELSE [raised |-> "none",
              query |-> [q EXCEPT !.orders = Append(@, o.order)]]

\* Query.filter, given field, op and value
Query_filter(q, field, op, value) ==
    LET f == Filter__init__(field, op, value)
    IN  IF f.raised # "none" THEN [raised |-> f.raised, query |-> q]
        ELSE [raised |-> "none",
              query |-> [q EXCEPT !.filters = Append(@, f.filter)]]

\* a mutant of Query.copy: the filters and orders are carried over
Query_copy_all(q) == q

\* Query.copy: Query.__init__ reads neither `filters` nor `orders`
Query_copy(q) ==
    Query__init__(q.key, q.limited, q.limit, q.offset, q.offset_key)

\* a mutant of Query.dict: a limit of 0 is left out
Query_dict_truthy_limit(q) ==
    LET present ==
            {"key"} \cup (IF q.limited /\ q.limit # 0 THEN {"limit"} ELSE {})
                \cup (IF q.offset > 0 THEN {"offset"} ELSE {})
                \cup (IF q.offset_key.t # "None" THEN {"offset_key"} ELSE {})
                \cup (IF Len(q.filters) > 0 THEN {"filter"} ELSE {})
                \cup (IF Len(q.orders) > 0 THEN {"order"} ELSE {})
    IN  [k \in present |->
            CASE k = "key" -> q.key
              [] k = "limit" -> q.limit
              [] k = "offset" -> q.offset
              [] k = "offset_key" -> q.offset_key.v
              [] k = "filter" ->
                    [i \in 1..Len(q.filters) |->
                        <<q.filters[i].field, q.filters[i].op, q.filters[i].value>>]
              [] k = "order" ->
                    [i \in 1..Len(q.orders) |-> Order__str__(q.orders[i])]]

\* Query.dict: a dictionary is a function on the keys it holds.  A Key is
\* never empty, so an offset_key that is a Key or a non-empty string is
\* written.
Query_dict(q) ==
    LET present ==
            {"key"} \cup (IF q.limited THEN {"limit"} ELSE {})
                \cup (IF q.offset > 0 THEN {"offset"} ELSE {})
                \cup (IF q.offset_key.t # "None" THEN {"offset_key"} ELSE {})
                \cup (IF Len(q.filters) > 0 THEN {"filter"} ELSE {})
                \cup (IF Len(q.orders) > 0 THEN {"order"} ELSE {})
    IN  [k \in present |->
            CASE k = "key" -> q.key
              [] k = "limit" -> q.limit
              [] k = "offset" -> q.offset
              [] k = "offset_key" -> q.offset_key.v
              [] k = "filter" ->
                    [i \in 1..Len(q.filters) |->
                        <<q.filters[i].field, q.filters[i].op, q.filters[i].value>>]
              [] k = "order" ->
                    [i \in 1..Len(q.orders) |-> Order__str__(q.orders[i])]]

\* the loops of Query.from_dict over the 'order' and the 'filter' lists
RECURSIVE AddOrders(_, _)
AddOrders(r, orders) ==
    IF orders = <<>> \/ r.raised # "none" THEN r
    ELSE AddOrders(Query_order(r.query, Head(orders)), Tail(orders))

RECURSIVE AddFilters(_, _)
AddFilters(r, filters) ==
    IF filters = <<>> \/ r.raised # "none" THEN r
    ELSE AddFilters(Query_filter(r.query, Head(filters)[1], Head(filters)[2],
                                 Head(filters)[3]),
                    Tail(filters))

\* Query.from_dict: each entry of the dictionary acts on its own attribute,
\* so the order in which the entries are visited does not matter
Query_from_dict(d) ==
    LET q0 == Query__init__(KeyOfStr(d["key"]), FALSE, 0, 0, NoKey)
        q1 == IF "limit" \in DOMAIN d
              THEN [q0 EXCEPT !.limited = TRUE, !.limit = d["limit"]] ELSE q0
        q2 == IF "offset" \in DOMAIN d
              THEN [q1 EXCEPT !.offset = d["offset"]] ELSE q1
        q3 == IF "offset_key" \in DOMAIN d
              THEN [q2 EXCEPT !.offset_key = [t |-> "str", v |-> d["offset_key"]]]
              ELSE q2
        r4 == IF "order" \in DOMAIN d
              THEN AddOrders([raised |-> "none", query |-> q3], d["order"])
              ELSE [raised |-> "none", query |-> q3]
    IN  IF "filter" \in DOMAIN d THEN AddFilters(r4, d["filter"]) ELSE r4

----------------------------------------------------------------------------
(* The Query state machine: a Query is constructed, filters and orders are *)
(* added, and dict, from_dict (of its dict) and copy are taken of it.      *)

QKeys == {<<"/">>, <<"/", "a">>}
QLimits == {0, 1}
QOffsets == {0, 1}
QOffsetKeys == {NoKey, [t |-> "Key", v |-> <<"/", "b">>]}
\* the arguments given to Query.filter; "==" is not an operator
QFilterOps == {"<", "=="}
QFilterValues == {IntV(1), NoneV}
\* the strings given to Query.order
QOrderStrings == {<<"+", "a">>, <<"-", "b">>, <<"a">>, <<>>}

QueryInit ==
    /\ \E key \in QKeys, limited \in BOOLEAN, limit \in QLimits,
          offset \in QOffsets, offset_key \in QOffsetKeys :
          qobj = Query__init__(key, limited, limit, offset, offset_key)
    /\ qlast = [op |-> "Query", arg |-> <<>>, raised |-> "none", result |-> <<>>]
    /\ NotQueryIdle

\* query.filter(field, op, value)
AddFilter(field, op, value) ==
    LET r == Query_filter(qobj, field, op, value)
    IN  /\ Len(qobj.filters) < MaxFilters
        /\ qobj' = r.query
        /\ qlast' = [op |-> "filter", arg |-> <<field, op>>,
                     raised |-> r.raised, result |-> qobj.filters]
        /\ UNCHANGED notQueryVars

\* query.order(order)
AddOrder(order) ==
    LET r == Query_order(qobj, order)
    IN  /\ Len(qobj.orders) < MaxOrders
        /\ qobj' = r.query
        /\ qlast' = [op |-> "order", arg |-> order, raised |-> r.raised,
                     result |-> qobj.orders]
        /\ UNCHANGED notQueryVars

\* query.dict()
ToDict ==
    /\ qlast' = [op |-> "dict", arg |-> <<>>, raised |-> "none",
                 result |-> Query_dict(qobj)]
    /\ UNCHANGED <<qobj, notQueryVars>>

\* Query.from_dict(query.dict())
FromDict ==
    LET r == Query_from_dict(Query_dict(qobj))
    IN  /\ qlast' = [op |-> "from_dict", arg |-> <<>>, raised |-> r.raised,
                     result |-> r.query]
        /\ UNCHANGED <<qobj, notQueryVars>>

\* query.copy()
Copy ==
    /\ qlast' = [op |-> "copy", arg |-> <<>>, raised |-> "none",
                 result |-> Query_copy(qobj)]
    /\ UNCHANGED <<qobj, notQueryVars>>

QueryNext ==
    \/ \E op \in QFilterOps, value \in QFilterValues : AddFilter("a", op, value)
    \/ \E order \in QOrderStrings : AddOrder(order)
    \/ ToDict
    \/ FromDict
    \/ Copy

SpecQuery == QueryInit /\ [][QueryNext]_vars

----------------------------------------------------------------------------
(* Claims about Query, checked under SpecQuery *)

\* C13: for a valid Query q, Query.from_dict(q.dict()) has the key, limit,
\* offset, filters and orders of q; q.dict() has no 'limit' when the limit
\* is unbounded and no 'offset' when the offset is zero.
C13_DictRoundTrip ==
    /\ qlast.op = "from_dict" =>
          /\ qlast.raised = "none"
          /\ qlast.result.key = qobj.key
          /\ qlast.result.limited = qobj.limited
          /\ qlast.result.limit = qobj.limit
          /\ qlast.result.offset = qobj.offset
          /\ qlast.result.filters = qobj.filters
          /\ qlast.result.orders = qobj.orders
    /\ qlast.op = "dict" =>
          /\ "limit" \in DOMAIN qlast.result <=> qobj.limited
          /\ "offset" \in DOMAIN qlast.result <=> qobj.offset # 0

\* a Query with a limit of 0, an offset, two filters and two orders came
\* back from its dictionary
C13_Witness ==
    /\ qlast.op = "from_dict"
    /\ qobj.limited /\ qobj.limit = 0 /\ qobj.offset > 0
    /\ Len(qobj.filters) = 2 /\ Len(qobj.orders) = 2
    /\ qobj.orders[1] # qobj.orders[2]
    /\ qlast.result.filters = qobj.filters
    /\ qlast.result.orders = qobj.orders

\* C14: Query.copy() returns a Query whose key, limit, offset, offset_key,
\* filters and orders are equal to those of the query it was called on.
C14_CopyEqual ==
    qlast.op = "copy" =>
        /\ qlast.result.key = qobj.key
        /\ qlast.result.limited = qobj.limited
        /\ qlast.result.limit = qobj.limit
        /\ qlast.result.offset = qobj.offset
        /\ qlast.result.offset_key = qobj.offset_key
        /\ qlast.result.filters = qobj.filters
        /\ qlast.result.orders = qobj.orders

\* C18: constructing an Order from a string whose first character is
\* neither '+' nor '-' fails with a ValueError and creates no Order.
C18_OrderWithoutSigil ==
    (/\ qlast.op = "order"
     /\ qlast.arg # <<>>
     /\ qlast.arg[1] \notin {"+", "-"}) =>
        /\ qlast.raised = "ValueError"
        /\ qobj.orders = qlast.result

----------------------------------------------------------------------------
(* Calls of Order.osorted, Filter.__call__, _object_getattr, the Key       *)
(* relations, MemcachedDatastore.query, the constructor of                 *)
(* SerializerShimDatastore and its query on their own, on arguments drawn  *)
(* from small sets.  None of them keeps state between calls, so a          *)
(* behaviour is one call: its arguments are chosen, then it is made.       *)

\* the items sorted: mappings with fields a and b; the last has no a
SortItems ==
    {[a |-> IntV(1), b |-> IntV(1)], [a |-> IntV(1), b |-> IntV(2)],
     [a |-> IntV(2), b |-> IntV(1)], [b |-> IntV(1)]}

SortOrders == {[op |-> o, field |-> f] : o \in {"+", "-"}, f \in {"a", "b"}}

\* the filters called: one of the six operators on field val against None,
\* 0 or 1
CallFilters ==
    {[field |-> "val", op |-> o, value |-> v] :
        o \in conditional_operators, v \in {NoneV, IntV(0), IntV(1)}}

\* the items filtered: val is 0, 1, None or missing
FilterItems ==
    {[val |-> IntV(0)], [val |-> IntV(1)], [val |-> NoneV], [other |-> IntV(1)]}

\* the objects read: mappings, instances with attributes, a number
GetattrObjects ==
    FilterItems
        \cup {[__dict__ |-> [val |-> IntV(1)]], [__dict__ |-> [other |-> IntV(1)]],
              [__int__ |-> 5]}

\* the Keys compared, and the Keys and segments children are made of
CallKeys == {KeyOfStr(str) : str \in StrsUpTo(KeyTokens, MaxLen)}
ParentKeys == {KeyOfStr(str) : str \in StrsUpTo(KeyTokens, MaxSeg)}
Segments == StrsUpTo(KeyTokens, MaxSeg)

\* impl/memcached.py: what a call of query gives back, an error raised or
\* a Cursor returned with the items it would yield
NoCursor == [returned |-> "nothing", items |-> <<>>]

\* a mutant of MemcachedDatastore.query: an empty Cursor is returned
MemcachedDatastore_query_empty(memcached, q) ==
    [raised |-> "none", result |-> [returned |-> "Cursor", items |-> <<>>]]

\* MemcachedDatastore.query: the body is `raise NotImplementedError`
MemcachedDatastore_query(memcached, q) ==
    [raised |-> "NotImplementedError", result |-> NoCursor]

\* the contents of the memcached client: str(key) to value
MemcachedContents ==
    UNION {[ks -> {"x", "y"}] : ks \in SUBSET {<<"/", "a">>, <<"/", "b">>}}

\* the queries asked of the MemcachedDatastore: plain, and with a filter and
\* an order
MemcachedQueries ==
    LET plain == {Query__init__(key, limited, limit, offset, NoKey) :
                    key \in QKeys, limited \in BOOLEAN, limit \in QLimits,
                    offset \in QOffsets}
    IN  plain \cup {Query_order(Query_filter(q, "a", "<", IntV(1)).query,
                                <<"+", "a">>).query : q \in plain}

\* A stored value and the object the passes of a query read are the same
\* thing written two ways: the number a digit stands for and back,
IntOf(d) == CASE d = "1" -> 1 [] d = "2" -> 2
DigitOf(n) == CASE n = 1 -> "1" [] n = 2 -> "2"

\* a mapping with one entry, a string or a number as an object,
PyObject(v) ==
    CASE v[1] = "dict" ->
            [f \in {v[2]} |-> IF v[3] = "int" THEN IntV(IntOf(v[4])) ELSE NoneV]
      [] v[1] = "str" -> [__str__ |-> Tail(v)]
      [] v[1] = "int" -> [__int__ |-> IntOf(v[2])]

\* and the object as a value.
PyValue(obj) ==
    IF "__str__" \in DOMAIN obj THEN StrValue(obj["__str__"])
    ELSE IF "__int__" \in DOMAIN obj THEN IntValue(DigitOf(obj["__int__"]))
    ELSE LET f == CHOOSE f \in DOMAIN obj : TRUE
         IN  DictValue(f, IF obj[f].t = "int" THEN IntValue(DigitOf(obj[f].v))
                          ELSE NoneValue)

\* the exception Cursor.apply_order raises inside Query.__call__: one of a
\* filter while osorted runs the filters to their end, or one of osorted
apply_order_raised(q, p, src) ==
    IF Len(q.orders) > 0
    THEN LET d == Drain(p, src)
         IN  IF d.raised # "none" THEN d.raised
             ELSE osorted_raised(d.items, q.orders)
    ELSE "none"

\* query(src) and the iteration of the Cursor to its end: the exception
\* raised, by the call or by a pull, and the items yielded before it
Query__call__iterated(q, src) ==
    LET e == apply_order_raised(q, apply_filter(q, NewPipe, src), src)
    IN  IF e # "none" THEN [at |-> "query", raised |-> e, items |-> <<>>]
        ELSE LET d == Drain(Query__call__(q, NewPipe, src), src)
             IN  [at |-> "next", raised |-> d.raised, items |-> d.items]

\* the child datastore's query: the query called on the stored values
child_query(stored, q) ==
    Query__call__iterated(q, [i \in 1..Len(stored) |-> PyObject(stored[i])])

\* deserialized_gen over the items a cursor yields: serializer.loads of
\* each, until one raises
RECURSIVE deserialized_gen(_, _, _)
deserialized_gen(serializer, items, acc) ==
    IF items = <<>> THEN [raised |-> "none", items |-> acc]
    ELSE LET v == loads(serializer, PyValue(Head(items)))
         IN  IF v[1] = "raise" THEN [raised |-> v[2], items |-> acc]
             ELSE deserialized_gen(serializer, Tail(items),
                                   Append(acc, PyObject(v)))

\* SerializerShimDatastore.query: the child runs the query on what it
\* stores, and the items its cursor yields are decoded as they are pulled
SerializerShimDatastore_query(serializer, stored, q) ==
    LET c == child_query(stored, q)
        d == deserialized_gen(serializer, c.items, <<>>)
    IN  IF c.at = "query" THEN c
        ELSE [at |-> "next",
              raised |-> IF d.raised # "none" THEN d.raised ELSE c.raised,
              items |-> d.items]

\* the values put through the shim: mappings with a field a, and numbers
QueriedValues ==
    {DictValue("a", IntValue("1")), DictValue("a", IntValue("2")),
     IntValue("1"), IntValue("2")}

QueriedSerializers ==
    {<<"json">>, <<"NonSerializer">>, <<"MapSerializer">>,
     <<"MapSerializer", "json">>}

\* the queries asked of the shim: at most one filter and one order
ShimQueries ==
    {[filters |-> fs, orders |-> os, offset |-> o, limited |-> ld,
      limit |-> IF ld THEN 1 ELSE 0] :
        fs \in {<<>>, <<[field |-> "a", op |-> "<=", value |-> IntV(1)]>>,
                <<[field |-> "b", op |-> "=", value |-> NoneV]>>},
        os \in {<<>>, <<[op |-> "-", field |-> "a"]>>},
        o \in 0..1, ld \in BOOLEAN}

\* the serializers a shim is constructed with: those that work, no
\* serializer, the base class and the caller's class, alone and stacked
ConstructSerializers ==
    Serializers \cup {<<>>, <<"Serializer">>, <<"Lossy">>, <<"json", "Lossy">>,
                      <<"Lossy", "json">>, <<"MapSerializer", "Lossy">>}

\* the child stores a shim is constructed over
ConstructDatastores == [ShimKeys -> {NoneValue, StrValue(<<"1">>)}]

\* the arguments of the call to come are chosen
CallInit ==
    /\ \/ \E items \in StrsUpTo(SortItems, MaxSrc),
             orders \in StrsUpTo(SortOrders, MaxOrders) :
             called = [fn |-> "call", of |-> "osorted", items |-> items,
                       orders |-> orders]
       \/ \E f \in CallFilters, obj \in FilterItems :
             called = [fn |-> "call", of |-> "Filter", f |-> f, obj |-> obj]
       \/ \E obj \in GetattrObjects, field \in {"val", "other"} :
             called = [fn |-> "call", of |-> "_object_getattr", obj |-> obj,
                       field |-> field]
       \/ \E a \in CallKeys, b \in CallKeys :
             called = [fn |-> "call", of |-> "relations", a |-> a, b |-> b]
       \/ \E k \in ParentKeys, x \in Segments, y \in Segments :
             called = [fn |-> "call", of |-> "children", k |-> k, x |-> x,
                       y |-> y]
       \/ \E memcached \in MemcachedContents, q \in MemcachedQueries :
             called = [fn |-> "call", of |-> "MemcachedDatastore.query",
                       memcached |-> memcached, q |-> q]
       \/ \E serializer \in QueriedSerializers,
             values \in StrsUpTo(QueriedValues, MaxStored),
             q \in ShimQueries :
             called = [fn |-> "call", of |-> "SerializerShimDatastore.query",
                       serializer |-> serializer, values |-> values, q |-> q]
       \/ \E datastore \in ConstructDatastores,
             serializer \in ConstructSerializers :
             called = [fn |-> "call", of |-> "SerializerShimDatastore",
                       datastore |-> datastore, serializer |-> serializer]
    /\ NotCallIdle

\* Order.osorted(items, orders)
CallOsorted ==
    /\ called.fn = "call" /\ called.of = "osorted"
    /\ called' = [fn |-> "osorted", items |-> called.items,
                  orders |-> called.orders,
                  result |-> osorted(called.items, called.orders)]
    /\ UNCHANGED notCallVars

\* Filter(field, op, value)(obj)
CallFilter ==
    /\ called.fn = "call" /\ called.of = "Filter"
    /\ called' = [fn |-> "Filter", f |-> called.f, obj |-> called.obj,
                  result |-> FilterCall(called.f, called.obj)]
    /\ UNCHANGED notCallVars

\* _object_getattr(obj, field)
CallGetattr ==
    /\ called.fn = "call" /\ called.of = "_object_getattr"
    /\ called' = [fn |-> "_object_getattr", obj |-> called.obj,
                  field |-> called.field,
                  result |-> _object_getattr(called.obj, called.field)]
    /\ UNCHANGED notCallVars

\* a.isAncestorOf(b), b.isDescendantOf(a), a < b, a == b, a > b
CallRelations ==
    LET a == called.a
        b == called.b
    IN  /\ called.fn = "call" /\ called.of = "relations"
        /\ called' = [fn |-> "relations", a |-> a, b |-> b,
                      isAncestorOf |-> isAncestorOf(a, b),
                      isDescendantOf |-> isDescendantOf(b, a),
                      selfAncestor |-> isAncestorOf(a, a),
                      selfDescendant |-> isDescendantOf(a, a),
                      lt |-> Key__lt__(a, b), eq |-> Key__eq__(a, b),
                      gt |-> Key__gt__(a, b)]
        /\ UNCHANGED notCallVars

\* k < k.child(x) and k.child(x) < k.child(y)
CallChildren ==
    LET k == called.k
        x == called.x
        y == called.y
    IN  /\ called.fn = "call" /\ called.of = "children"
        /\ called' = [fn |-> "children", k |-> k, x |-> x, y |-> y,
                      first |-> Key__lt__(k, child(k, x)),
                      second |-> Key__lt__(child(k, x), child(k, y))]
        /\ UNCHANGED notCallVars

\* MemcachedDatastore(memcached).query(q)
CallMemcachedQuery ==
    LET r == MemcachedDatastore_query(called.memcached, called.q)
    IN  /\ called.fn = "call" /\ called.of = "MemcachedDatastore.query"
        /\ called' = [fn |-> "MemcachedDatastore.query",
                      memcached |-> called.memcached, q |-> called.q,
                      raised |-> r.raised, result |-> r.result]
        /\ UNCHANGED notCallVars

\* SerializerShimDatastore(datastore, serializer=serializer)
CallSerializerShimDatastore ==
    LET r == SerializerShimDatastore__init__(called.datastore,
                                             called.serializer)
    IN  /\ called.fn = "call" /\ called.of = "SerializerShimDatastore"
        /\ called' = [fn |-> "SerializerShimDatastore",
                      datastore |-> called.datastore,
                      serializer |-> called.serializer,
                      raised |-> r.raised, shim |-> r.shim]
        /\ UNCHANGED notCallVars

\* shim.put of each value in turn, under keys the child lists in that
\* order, then shim.query(q) and the iteration of the cursor
CallShimQuery ==
    LET stored == [i \in 1..Len(called.values) |->
                      serializedValue(called.serializer, called.values[i])]
    IN  /\ called.fn = "call" /\ called.of = "SerializerShimDatastore.query"
        /\ called' = [fn |-> "SerializerShimDatastore.query",
                      serializer |-> called.serializer,
                      values |-> called.values, stored |-> stored,
                      q |-> called.q,
                      result |-> SerializerShimDatastore_query(
                                    called.serializer, stored, called.q)]
        /\ UNCHANGED notCallVars

CallNext ==
    \/ CallOsorted
    \/ CallFilter
    \/ CallGetattr
    \/ CallRelations
    \/ CallChildren
    \/ CallMemcachedQuery
    \/ CallSerializerShimDatastore
    \/ CallShimQuery

SpecCalls == CallInit /\ [][CallNext]_vars

----------------------------------------------------------------------------
(* Claims about Order, Filter and _object_getattr, checked under SpecCalls *)

\* a comes before b under one order: by the field's value, in the order's
\* direction
BeforeUnder(o, a, b) ==
    IF o.op = "+" THEN cmp(keyfn(o, a), keyfn(o, b)) < 0
    ELSE cmp(keyfn(o, a), keyfn(o, b)) > 0

TiedUnder(o, a, b) == cmp(keyfn(o, a), keyfn(o, b)) = 0

\* a comes strictly before b lexicographically: the first order that tells
\* them apart puts a first
LexBefore(orders, a, b) ==
    \E i \in 1..Len(orders) :
        /\ \A j \in 1..(i - 1) : TiedUnder(orders[j], a, b)
        /\ BeforeUnder(orders[i], a, b)

LexTied(orders, a, b) == \A j \in 1..Len(orders) : TiedUnder(orders[j], a, b)

Occurrences(x, s) == Cardinality({i \in 1..Len(s) : s[i] = x})

\* C15: Order.osorted(items, orders) is a permutation of items, sorted by
\* the lexicographic combination of the orders (first order primary, each
\* in its own direction), and items tied under every order keep their
\* original relative order.
C15_OsortedLexStable ==
    called.fn = "osorted" =>
        LET items == called.items
            orders == called.orders
            r == called.result
        IN  /\ Len(r) = Len(items)
            /\ \A x \in SortItems : Occurrences(x, r) = Occurrences(x, items)
            /\ \A i, j \in 1..Len(r) :
                  i < j => ~LexBefore(orders, r[j], r[i])
            /\ \A x \in SortItems :
                  SelectSeq(r, LAMBDA y : LexTied(orders, x, y))
                      = SelectSeq(items, LAMBDA y : LexTied(orders, x, y))

\* three items sorted under two orders of opposite directions: the second
\* order decided a tie of the first, and the result is not the input
C15_Witness ==
    /\ called.fn = "osorted"
    /\ Len(called.items) = 3 /\ Len(called.orders) = 2
    /\ called.orders[1].op # called.orders[2].op
    /\ called.orders[1].field # called.orders[2].field
    /\ called.result # called.items
    /\ \E i \in 1..2 :
          /\ TiedUnder(called.orders[1], called.result[i], called.result[i + 1])
          /\ BeforeUnder(called.orders[2], called.result[i], called.result[i + 1])

\* C16: when the value extracted from the item is absent (None), a Filter
\* passes only if it is an '=' filter whose comparison value is absent.
C16_AbsentFailsAll ==
    (called.fn = "Filter" /\ _object_getattr(called.obj, called.f.field) = NoneV)
        => (called.result <=> (called.f.op = "=" /\ called.f.value = NoneV))

\* C17: _object_getattr(obj, field) never raises for a missing field: it
\* returns the attribute if present, otherwise the mapping entry if
\* present, otherwise None.
C17_GetattrNeverRaises ==
    called.fn = "_object_getattr" =>
        called.result =
            IF hasattr(called.obj, called.field)
            THEN called.obj["__dict__"][called.field]
            ELSE IF IsMapping(called.obj) /\ called.field \in DOMAIN called.obj
            THEN called.obj[called.field]
            ELSE NoneV

----------------------------------------------------------------------------
(* Claims about the Key relations, checked under SpecCalls *)

\* C19: a.isAncestorOf(b) == b.isDescendantOf(a) for all Keys a and b, and
\* no Key is its own ancestor or its own descendant.
C19_AncestryConverse ==
    called.fn = "relations" =>
        /\ called.isAncestorOf = called.isDescendantOf
        /\ ~called.selfAncestor
        /\ ~called.selfDescendant

\* a Key and a child of it: the one is the other's ancestor, and not the
\* other way round
C19_Witness ==
    /\ called.fn = "relations"
    /\ called.isAncestorOf /\ called.isDescendantOf
    /\ Len(klist(called.b)) = Len(klist(called.a)) + 1
    /\ ~isAncestorOf(called.b, called.a)

\* C20: for any Keys a and b exactly one of a < b, a == b, a > b holds, and
\* for any Key k and non-empty segments x < y without '/',
\* k < k.child(x) < k.child(y).
C20_TotalOrder ==
    /\ called.fn = "relations" =>
          /\ called.lt \/ called.eq \/ called.gt
          /\ ~(called.lt /\ called.eq)
          /\ ~(called.lt /\ called.gt)
          /\ ~(called.eq /\ called.gt)
    /\ (/\ called.fn = "children"
        /\ called.x # <<>> /\ NoSlash(called.x)
        /\ called.y # <<>> /\ NoSlash(called.y)
        /\ str_lt(called.x, called.y)) =>
          called.first /\ called.second

\* two segments of which the first is the start of the second, under a Key
\* that is not the root
C20_Witness ==
    /\ called.fn = "children"
    /\ called.k # <<"/">>
    /\ called.x # <<>> /\ NoSlash(called.x) /\ NoSlash(called.y)
    /\ Len(called.y) > Len(called.x)
    /\ startswith(called.y, called.x)
    /\ called.first /\ called.second

----------------------------------------------------------------------------
(* Further claims about the FileSystemDatastore, checked under SpecFS *)

\* key holds a value: get(key) returns it
Holds(fs, key) == get(fs, key).raised = "none" /\ get(fs, key).value # NoValue

\* the segments children are made with
ChildSegments == {<<"a">>, <<"b">>, <<":">>, <<"a", ":", "b">>}

\* C21: a value at a key k and a value at a child of k coexist: putting
\* either one while the other holds a value leaves the other's value as it
\* was and get returns the value put; deleting either one leaves the other
\* retrievable.
C21_ParentAndChildCoexist ==
    [][\A k \in FsKeys, c \in ChildSegments :
          LET kc == child(k, c)
          IN  kc \in FsKeys =>
                /\ (fslast'.op = "put" /\ fslast'.key = kc /\ Holds(fsys, k)) =>
                      /\ get(fsys', k) = get(fsys, k)
                      /\ get(fsys', kc) =
                            [raised |-> "none", value |-> Value(fslast'.value)]
                /\ (fslast'.op = "put" /\ fslast'.key = k /\ Holds(fsys, kc)) =>
                      /\ get(fsys', kc) = get(fsys, kc)
                      /\ get(fsys', k) =
                            [raised |-> "none", value |-> Value(fslast'.value)]
                /\ (fslast'.op = "delete" /\ fslast'.key = kc /\ Holds(fsys, k)) =>
                      get(fsys', k) = get(fsys, k)
                /\ (fslast'.op = "delete" /\ fslast'.key = k /\ Holds(fsys, kc)) =>
                      get(fsys', kc) = get(fsys, kc)]_vars

----------------------------------------------------------------------------
(* Claims about the MemcachedDatastore, checked under SpecCalls             *)

----------------------------------------------------------------------------
(* Claims about the construction of a SerializerShimDatastore, checked      *)
(* under SpecCalls                                                          *)

\* the mapping the constructor round-trips
ConstructTest == DictValue("value", StrValue(<<"repr">>))

\* C23: constructing a SerializerShimDatastore with a codec for which
\* loads(dumps(test)) is not equal to the test mapping fails and yields no
\* shim; with a codec that round-trips it, construction succeeds and the
\* shim is over the given child store.
C23_ConstructionTriesCodec ==
    called.fn = "SerializerShimDatastore" =>
        LET s == called.serializer
        IN  IF loads(s, dumps(s, ConstructTest)) = ConstructTest
            THEN /\ called.raised = "none"
                 /\ called.shim # NoShim
                 /\ called.shim.child_datastore = called.datastore
            ELSE /\ called.raised # "none"
                 /\ called.shim = NoShim

\* a construction that failed the assertion: loads(dumps(test)) is a value,
\* and not the test mapping
C23_Witness ==
    /\ called.fn = "SerializerShimDatastore"
    /\ loads(called.serializer, dumps(called.serializer, ConstructTest))[1]
          # "raise"
    /\ loads(called.serializer, dumps(called.serializer, ConstructTest))
          # ConstructTest
    /\ called.raised = "AssertionError"
    /\ called.shim = NoShim

----------------------------------------------------------------------------
(* Claims about SerializerShimDatastore.query, checked under SpecCalls      *)

\* the values the child holds, decoded
DecodedObjects(serializer, stored) ==
    [i \in 1..Len(stored) |-> PyObject(loads(serializer, stored[i]))]

\* C24: for any query q, filters and orders included, iterating
\* SerializerShimDatastore.query(q) yields the same sequence of values, and
\* ends the same way, as applying q to the decoded values the child holds.
C24_ShimQueryPreserved ==
    called.fn = "SerializerShimDatastore.query" =>
        LET applied == Query__call__iterated(called.q,
                          DecodedObjects(called.serializer, called.stored))
        IN  /\ called.result.items = applied.items
            /\ called.result.raised = applied.raised

\* the files that lie directly in the directory the scope key addresses
FilesIn(fs, key) ==
    {n \in DOMAIN fs.files : SubSeq(n, 1, Len(n) - 1) = Resolve(path(key))}

\* C25: a query with scope key s and nothing else yields the values of the
\* object files that lie directly in the directory s addresses, each exactly
\* once, and is iterated to its end without an error, whatever else is
\* stored; it yields nothing when nothing is stored under s.
C25_QueryListsOneLevel ==
    fslast.op = "query" =>
        /\ fslast.raised = "none"
        /\ \A v \in FsValues :
              Cardinality({i \in 1..Len(fslast.items) :
                              fslast.items[i] = Value(v)})
                 = Cardinality({n \in FilesIn(fsys, fslast.key) :
                                   fsys.files[n] = v})
        /\ Len(fslast.items) = Cardinality(FilesIn(fsys, fslast.key))

\* C28: put(k, v) and delete(k) leave get(k') and contains(k') as they were
\* for every Key k' not equal to k: two distinct Keys never address the
\* same stored object.
C28_OtherKeysUntouched ==
    [][fslast'.op \in {"put", "delete"} =>
          \A k \in FsKeys :
              ~Key__eq__(k, fslast'.key) =>
                  /\ get(fsys', k) = get(fsys, k)
                  /\ contains(fsys', k) = contains(fsys, k)]_vars

\* the path names the root directory or something below it
InsideRoot(p) ==
    /\ Len(Resolve(p)) >= Len(Resolve(root_path))
    /\ SubSeq(Resolve(p), 1, Len(Resolve(root_path))) = Resolve(root_path)

\* C29: for every Key an operation is given, the object path and the
\* directory path computed for it lie inside the root directory, and no
\* file exists outside it.
C29_PathsInsideRoot ==
    fslast.op \notin {"none", "init"} =>
        /\ InsideRoot(object_path(fslast.key))
        /\ InsideRoot(path(fslast.key))
        /\ \A n \in DOMAIN fsys.files :
              SubSeq(n, 1, Len(Resolve(root_path))) = Resolve(root_path)

----------------------------------------------------------------------------
(* Further claims about the Cursor, checked under SpecCursor                *)

\* C26: for a query without orders, building the Cursor consumes no item of
\* the source before the first pull, and afterwards the source is consumed
\* only by pulls, a pull that returns an item consuming none beyond it; for
\* a query with an order, the whole source has been consumed, and so all of
\* it filtered, before the first item is returned.
C26_LazyUnlessOrdered ==
    /\ [](/\ (query.orders = <<>> /\ yielded = <<>> /\ ~exhausted) =>
                pipe.srcpos = 0
          /\ (query.orders # <<>> /\ yielded # <<>>) =>
                pipe.srcpos = Len(source))
    /\ [][query.orders = <<>> =>
            /\ pipe'.srcpos # pipe.srcpos => clast'.op = "next"
            /\ (clast'.op = "next" /\ clast'.raised = "none") =>
                  /\ pipe'.srcpos > pipe.srcpos
                  /\ source[pipe'.srcpos] = yielded'[Len(yielded')]]_vars

\* a cursor without orders, with a filter, has returned its first item and
\* part of its source is not consumed yet
C26_Witness ==
    /\ built = 4 /\ query.orders = <<>> /\ query.filters # <<>>
    /\ Len(yielded) = 1
    /\ pipe.srcpos > 1
    /\ pipe.srcpos < Len(source)

\* the number of items that have come out of the stages upstream of the
\* offset and the limit: out of the sorted list, or out of the filters
Produced ==
    IF query.orders # <<>> THEN pipe.stages[Len(query.filters) + 1].n
    ELSE Cardinality({i \in 1..pipe.srcpos : PassesAll(source[i])})

\* C27: a Cursor with limit l never makes the stages upstream of the limit
\* produce more than l items past the offset, even when it is iterated to
\* its end: limit_gen pulls at most l items.
C27_LimitPullsAtMostLimit ==
    (built = 4 /\ query.limited) => Produced <= query.offset + query.limit

----------------------------------------------------------------------------
(* A further claim about Key, checked under SpecKey                         *)

\* C30: whenever k.parent returns a Key, that Key is an ancestor of k and k
\* is a descendant of it.
C30_ParentIsAncestor ==
    (klast.op = "parent" /\ klast.raised = "none") =>
        /\ isAncestorOf(kstring, klast.before)
        /\ isDescendantOf(klast.before, kstring)

====
